---- MODULE Spec2Model ----
(***************************************************************************)
(* Huffman prefix coding (huffman.py) and LZW dictionary coding (lzw.py),  *)
(* driven the way test.py drives them: for each file compress_to_file,    *)
(* then decompress_from_file, then LZW.encode, then LZW.decode; after the  *)
(* last file temp_huffman.bin is removed.                                  *)
(*                                                                         *)
(* Representation.  A Python str is a sequence of code points, a bytes     *)
(* object a sequence of integers 0..255, a string of '0'/'1' characters a  *)
(* sequence of the strings "0" and "1".  A dict is the sequence of its     *)
(* [key, val] items in insertion order (Python dicts keep that order, and  *)
(* the heap is filled in that order).  A file is the sequence of its       *)
(* bytes.                                                                  *)
(***************************************************************************)
EXTENDS Integers, Sequences, FiniteSets, TLC

VARIABLES
    mode,               \* which caller runs: "harness", "decompress", "lzw_decode"
    pc,                 \* position of the caller ("finished": run_tests is over)
    original_text,      \* test.py: original_text
    file_exists,        \* whether temp_huffman.bin is on disk
    file,               \* its bytes
    huffman_data_bits,  \* value returned by compress_to_file
    comp,               \* locals of compress_to_file at its return
    huff,               \* outcome of decompress_from_file
    text_bytes,         \* LZW.encode: text_bytes
    enc_pos,            \* LZW.encode: number of bytes the for loop has taken
    enc_dictionary,     \* LZW.encode: dictionary
    enc_dict_size,      \* LZW.encode: dict_size
    current_string,     \* LZW.encode: current_string
    result_codes,       \* LZW.encode: result_codes
    enc_matched,        \* history: the sequence matched at each append to result_codes
    compressed_codes,   \* LZW.decode: compressed_codes
    dec_pos,            \* LZW.decode: number of codes consumed
    dec_dictionary,     \* LZW.decode: dictionary
    dec_dict_size,      \* LZW.decode: dict_size
    old_code,           \* LZW.decode: old_code
    result_bytes,       \* LZW.decode: result_bytes
    current_byte,       \* LZW.decode: current_byte
    dec_log,            \* history: per consumed code, how it was resolved
    lzw                 \* outcome of LZW.decode

vars == <<mode, pc, original_text, file_exists, file, huffman_data_bits, comp,
          huff, text_bytes, enc_pos, enc_dictionary, enc_dict_size,
          current_string, result_codes, enc_matched, compressed_codes,
          dec_pos, dec_dictionary, dec_dict_size, old_code, result_bytes,
          current_byte, dec_log, lzw>>

(***************************************************************************)
(* Bounds of the model.                                                    *)
(***************************************************************************)
\* longest input text, in characters
MaxLen == 4
\* longest text whose artifact is damaged before decompress_from_file reads it
MaxDamagedLen == 3
\* longest code sequence handed directly to LZW.decode
MaxCodes == 3
\* characters of the input texts: newline, 'A', 'B', e-acute
Alphabet == {10, 65, 66, 233}
\* codes handed directly to LZW.decode: 'A', 'B', byte 0xC8, 256, 257, 258, 300
CodeVals == {65, 66, 200, 256, 257, 258, 300}
\* bytes written over one byte of an artifact: 'x', '7'
CorruptBytes == {55, 120}
\* longest text of the files run_tests reads after the first one
MaxLaterLen == 1
\* padding lines and bodies of the artifacts with an empty frequency table
EmptyTablePaddings == {0, 3}
EmptyTableBodies == {<<>>, <<112>>}

Texts == UNION {[1..n -> Alphabet] : n \in 0..MaxLen}

LaterTexts == UNION {[1..n -> Alphabet] : n \in 0..MaxLaterLen}

DamagedTexts == UNION {[1..n -> Alphabet] : n \in 1..MaxDamagedLen}

CodeSeqs == UNION {[1..n -> CodeVals] : n \in 0..MaxCodes}

(***************************************************************************)
(* Python values.                                                          *)
(***************************************************************************)
\* None where a character is expected
NoneChar == <<-1>>
\* None where a node is expected
NoNode == [char |-> NoneChar, freq |-> -1]

Min(a, b) == IF a < b THEN a ELSE b

RECURSIVE Repeat(_, _)
\* s * n
Repeat(s, n) == IF n <= 0 THEN <<>> ELSE s \o Repeat(s, n - 1)

RECURSIVE Join(_)
\* "".join(parts)
Join(parts) == IF parts = <<>> THEN <<>> ELSE Head(parts) \o Join(Tail(parts))

\* key in d
DictHas(d, k) == \E i \in 1..Len(d) : d[i].key = k

\* d[k]
DictGet(d, k) == d[CHOOSE i \in 1..Len(d) : d[i].key = k].val

\* d[k] = v
DictSet(d, k, v) ==
    IF DictHas(d, k)
    THEN [d EXCEPT ![CHOOSE i \in 1..Len(d) : d[i].key = k] = [key |-> k, val |-> v]]
    ELSE Append(d, [key |-> k, val |-> v])

RECURSIVE CounterLoop(_, _)
CounterLoop(text, d) ==
    IF text = <<>> THEN d
    ELSE LET ch == <<Head(text)>>
         IN CounterLoop(Tail(text),
                        DictSet(d, ch, IF DictHas(d, ch) THEN DictGet(d, ch) + 1 ELSE 1))

\* Counter(text)
Counter(text) == CounterLoop(text, <<>>)

(***************************************************************************)
(* heapq, on a list held as a sequence: position p is element p + 1.       *)
(***************************************************************************)
HuffmanNode(char, freq) ==
    [char |-> char, freq |-> freq, left |-> NoNode, right |-> NoNode]

\* NodeLt that orders the heap by highest frequency
NodeLt_Greater(self, other) == self.freq > other.freq

\* HuffmanNode.__lt__
NodeLt(self, other) == self.freq < other.freq

RECURSIVE SiftDownLoop(_, _, _, _)
SiftDownLoop(heap, startpos, pos, newitem) ==
    IF pos > startpos
    THEN LET parentpos == (pos - 1) \div 2
             parent == heap[parentpos + 1]
         IN IF NodeLt(newitem, parent)
            THEN SiftDownLoop([heap EXCEPT ![pos + 1] = parent], startpos, parentpos, newitem)
            ELSE [heap EXCEPT ![pos + 1] = newitem]
    ELSE [heap EXCEPT ![pos + 1] = newitem]

\* heapq._siftdown
SiftDown(heap, startpos, pos) == SiftDownLoop(heap, startpos, pos, heap[pos + 1])

RECURSIVE SiftUpLoop(_, _, _)
SiftUpLoop(heap, pos, childpos) ==
    IF childpos < Len(heap)
    THEN LET rightpos == childpos + 1
             c == IF rightpos < Len(heap) /\ ~NodeLt(heap[childpos + 1], heap[rightpos + 1])
                  THEN rightpos ELSE childpos
         IN SiftUpLoop([heap EXCEPT ![pos + 1] = heap[c + 1]], c, 2 * c + 1)
    ELSE [heap |-> heap, pos |-> pos]

\* heapq._siftup
SiftUp(heap, pos) ==
    LET newitem == heap[pos + 1]
        r == SiftUpLoop(heap, pos, 2 * pos + 1)
    IN SiftDown([r.heap EXCEPT ![r.pos + 1] = newitem], pos, r.pos)

RECURSIVE HeapifyLoop(_, _)
HeapifyLoop(x, i) == IF i < 0 THEN x ELSE HeapifyLoop(SiftUp(x, i), i - 1)

\* heapq.heapify
Heapify(x) == HeapifyLoop(x, (Len(x) \div 2) - 1)

\* heapq.heappush
HeapPush(heap, item) == SiftDown(Append(heap, item), 0, Len(heap))

\* heapq.heappop: the item and the heap left
HeapPop(heap) ==
    LET lastelt == heap[Len(heap)]
        rest == SubSeq(heap, 1, Len(heap) - 1)
    IN IF rest # <<>>
       THEN [item |-> rest[1], heap |-> SiftUp([rest EXCEPT ![1] = lastelt], 0)]
       ELSE [item |-> lastelt, heap |-> rest]

(***************************************************************************)
(* huffman.py: tree and codebook.                                          *)
(***************************************************************************)
\* merged = HuffmanNode(None, node1.freq + node2.freq) with its two children
Merged(node1, node2) ==
    [char |-> NoneChar, freq |-> node1.freq + node2.freq,
     left |-> node1, right |-> node2]

\* one turn of "while len(heap) > 1"
MergeStep(heap) ==
    LET p1 == HeapPop(heap)
        p2 == HeapPop(p1.heap)
    IN HeapPush(p2.heap, Merged(p1.item, p2.item))

RECURSIVE MergeLoop(_)
MergeLoop(heap) == IF Len(heap) > 1 THEN MergeLoop(MergeStep(heap)) ELSE heap

RECURSIVE LeafNodes(_)
\* [HuffmanNode(char, freq) for char, freq in frequency.items()]
LeafNodes(frequency) ==
    IF frequency = <<>> THEN <<>>
    ELSE <<HuffmanNode(Head(frequency).key, Head(frequency).val)>>
         \o LeafNodes(Tail(frequency))

\* the heap of leaves, one per item of the frequency map
LeafHeap(frequency) == Heapify(LeafNodes(frequency))

build_huffman_tree(text) ==
    IF text = <<>>
    THEN [root |-> NoNode, frequency |-> <<>>]
    ELSE LET frequency == Counter(text)
         IN [root |-> MergeLoop(LeafHeap(frequency))[1], frequency |-> frequency]

RECURSIVE build_codes_SamePrefix(_, _, _)
\* build_codes that descends right without extending the prefix
build_codes_SamePrefix(node, prefix, codebook) ==
    IF node = NoNode THEN codebook
    ELSE LET c1 == IF node.char # NoneChar
                   THEN DictSet(codebook, node.char, prefix) ELSE codebook
             c2 == build_codes_SamePrefix(node.left, prefix \o <<"0">>, c1)
         IN build_codes_SamePrefix(node.right, prefix, c2)

RECURSIVE build_codes(_, _, _)
build_codes(node, prefix, codebook) ==
    IF node = NoNode THEN codebook
    ELSE LET c1 == IF node.char # NoneChar
                   THEN DictSet(codebook, node.char, prefix) ELSE codebook
             c2 == build_codes(node.left, prefix \o <<"0">>, c1)
         IN build_codes(node.right, prefix \o <<"1">>, c2)

build_tree_from_frequency(frequency) ==
    IF frequency = <<>> THEN NoNode
    ELSE MergeLoop(LeafHeap(frequency))[1]

(***************************************************************************)
(* Conversions: bit strings, decimal integers, UTF-8.                      *)
(***************************************************************************)
RECURSIVE IntBase2(_)
\* int(byte, 2)
IntBase2(bits) ==
    IF bits = <<>> THEN 0
    ELSE 2 * IntBase2(SubSeq(bits, 1, Len(bits) - 1))
         + (IF bits[Len(bits)] = "1" THEN 1 ELSE 0)

RECURSIVE BinDigits(_)
\* bin(n)[2:]
BinDigits(n) ==
    IF n < 2 THEN <<IF n = 1 THEN "1" ELSE "0">>
    ELSE Append(BinDigits(n \div 2), IF n % 2 = 1 THEN "1" ELSE "0")

\* s.zfill(8)
ZFill8(s) == IF Len(s) >= 8 THEN s ELSE Repeat(<<"0">>, 8 - Len(s)) \o s

RECURSIVE StrOfInt(_)
\* str(n), n >= 0 (padding and counts are never negative)
StrOfInt(n) ==
    IF n < 10 THEN <<48 + n>> ELSE Append(StrOfInt(n \div 10), 48 + (n % 10))

IsDigit(c) == c >= 48 /\ c <= 57

RECURSIVE DigitsValue(_)
DigitsValue(s) ==
    IF s = <<>> THEN 0
    ELSE 10 * DigitsValue(SubSeq(s, 1, Len(s) - 1)) + (s[Len(s)] - 48)

\* the code points int() strips from both ends: the ASCII white space of
\* C isspace and the Unicode white space above 127
IntSpace ==
    {9, 10, 11, 12, 13, 32, 133, 160, 5760} \cup (8192..8202)
        \cup {8232, 8233, 8239, 8287, 12288}

\* the digit zero of every Unicode run of decimal digits (category Nd)
DecimalZeros ==
    {48, 1632, 1776, 1984, 2406, 2534, 2662, 2790, 2918, 3046, 3174, 3302,
     3430, 3558, 3664, 3792, 3872, 4160, 4240, 6112, 6160, 6470, 6608, 6784,
     6800, 6992, 7088, 7232, 7248, 42528, 43216, 43264, 43472, 43504, 43600,
     44016, 65296, 66720, 68912, 69734, 69872, 69942, 70096, 70384, 70736,
     70864, 71248, 71360, 71472, 71904, 72016, 72784, 73040, 73120, 92768,
     92864, 93008, 120782, 120792, 120802, 120812, 120822, 123200, 123632,
     125264, 130032}

\* the value of a decimal digit, -1 for any other character
DecimalValue(c) ==
    IF \E z \in DecimalZeros : c >= z /\ c <= z + 9
    THEN c - (CHOOSE z \in DecimalZeros : c >= z /\ c <= z + 9)
    ELSE -1

RECURSIVE IntLStrip(_)
IntLStrip(s) == IF s # <<>> /\ Head(s) \in IntSpace THEN IntLStrip(Tail(s)) ELSE s

RECURSIVE IntRStrip(_)
IntRStrip(s) ==
    IF s # <<>> /\ s[Len(s)] \in IntSpace
    THEN IntRStrip(SubSeq(s, 1, Len(s) - 1))
    ELSE s

RECURSIVE IntDigits(_, _, _, _)
\* the digits of s from index i on, single underscores between digits
\* allowed; after_digit tells whether the character before i is a digit
IntDigits(s, i, acc, after_digit) ==
    IF i > Len(s) THEN [ok |-> after_digit, val |-> acc]
    ELSE IF DecimalValue(s[i]) >= 0
         THEN IntDigits(s, i + 1, 10 * acc + DecimalValue(s[i]), TRUE)
    ELSE IF s[i] = 95 /\ after_digit THEN IntDigits(s, i + 1, acc, FALSE)
    ELSE [ok |-> FALSE, val |-> 0]

\* int() of the stripped string t
IntOfStripped(t, signed, d) ==
    [ok |-> d.ok,
     val |-> IF ~d.ok THEN 0 ELSE IF signed /\ t[1] = 45 THEN 0 - d.val ELSE d.val]

IntOfSigned(t, signed) ==
    IntOfStripped(t, signed, IntDigits(t, IF signed THEN 2 ELSE 1, 0, FALSE))

\* int(s): white space stripped, an optional sign, then decimal digits with
\* single underscores between them; ok is FALSE where Python raises
\* ValueError
IntOfStr(s) ==
    IntOfSigned(IntRStrip(IntLStrip(s)),
                IntRStrip(IntLStrip(s)) # <<>> /\ IntLStrip(s)[1] \in {43, 45})

\* UTF-8 of one code point (no lone surrogates: test.py reads its texts
\* from UTF-8 files)
Utf8OfChar(cp) ==
    IF cp < 128 THEN <<cp>>
    ELSE IF cp < 2048 THEN <<192 + (cp \div 64), 128 + (cp % 64)>>
    ELSE IF cp < 65536
         THEN <<224 + (cp \div 4096), 128 + ((cp \div 64) % 64), 128 + (cp % 64)>>
    ELSE <<240 + (cp \div 262144), 128 + ((cp \div 4096) % 64),
           128 + ((cp \div 64) % 64), 128 + (cp % 64)>>

RECURSIVE EncodeUtf8(_)
\* s.encode('utf-8')
EncodeUtf8(s) == IF s = <<>> THEN <<>> ELSE Utf8OfChar(Head(s)) \o EncodeUtf8(Tail(s))

IsCont(b) == b >= 128 /\ b <= 191

RECURSIVE DecodeUtf8Loop(_, _, _)
DecodeUtf8Loop(b, i, acc) ==
    LET n == Len(b)
        bad == [ok |-> FALSE, str |-> <<>>]
    IN IF i > n THEN [ok |-> TRUE, str |-> acc]
       ELSE IF b[i] < 128 THEN DecodeUtf8Loop(b, i + 1, Append(acc, b[i]))
       ELSE IF b[i] >= 194 /\ b[i] <= 223
            THEN IF i + 1 <= n /\ IsCont(b[i + 1])
                 THEN DecodeUtf8Loop(b, i + 2,
                          Append(acc, (b[i] - 192) * 64 + (b[i + 1] - 128)))
                 ELSE bad
       ELSE IF b[i] >= 224 /\ b[i] <= 239
            THEN IF /\ i + 2 <= n
                    /\ IsCont(b[i + 1]) /\ IsCont(b[i + 2])
                    /\ (b[i] = 224 => b[i + 1] >= 160)
                    /\ (b[i] = 237 => b[i + 1] <= 159)
                 THEN DecodeUtf8Loop(b, i + 3,
                          Append(acc, (b[i] - 224) * 4096 + (b[i + 1] - 128) * 64
                                      + (b[i + 2] - 128)))
                 ELSE bad
       ELSE IF b[i] >= 240 /\ b[i] <= 244
            THEN IF /\ i + 3 <= n
                    /\ IsCont(b[i + 1]) /\ IsCont(b[i + 2]) /\ IsCont(b[i + 3])
                    /\ (b[i] = 240 => b[i + 1] >= 144)
                    /\ (b[i] = 244 => b[i + 1] <= 143)
                 THEN DecodeUtf8Loop(b, i + 4,
                          Append(acc, (b[i] - 240) * 262144 + (b[i + 1] - 128) * 4096
                                      + (b[i + 2] - 128) * 64 + (b[i + 3] - 128)))
                 ELSE bad
       ELSE bad

\* b.decode('utf-8'): ok is FALSE where Python raises UnicodeDecodeError
DecodeUtf8(b) == DecodeUtf8Loop(b, 1, <<>>)

(***************************************************************************)
(* json.dumps of a str -> int dict and json.loads of a header line.        *)
(***************************************************************************)
\* a float written with this many characters or fewer and an exponent of
\* -99 or more is above 1e-299, far from the smallest float
MaxFloatLen == 200

HexDigit(d) == IF d < 10 THEN 48 + d ELSE 87 + d

\* '\\u%04x' % n
EscapeU(n) ==
    <<92, 117, HexDigit(n \div 4096), HexDigit((n \div 256) % 16),
      HexDigit((n \div 16) % 16), HexDigit(n % 16)>>

\* json.encoder: one character of a string, ensure_ascii=True
EscapeChar(c) ==
    IF c = 92 THEN <<92, 92>>
    ELSE IF c = 34 THEN <<92, 34>>
    ELSE IF c = 8 THEN <<92, 98>>
    ELSE IF c = 12 THEN <<92, 102>>
    ELSE IF c = 10 THEN <<92, 110>>
    ELSE IF c = 13 THEN <<92, 114>>
    ELSE IF c = 9 THEN <<92, 116>>
    ELSE IF c >= 32 /\ c <= 126 THEN <<c>>
    ELSE IF c < 65536 THEN EscapeU(c)
    ELSE EscapeU(55296 + (((c - 65536) \div 1024) % 1024))
         \o EscapeU(56320 + ((c - 65536) % 1024))

RECURSIVE EscapeString(_)
EscapeString(s) == IF s = <<>> THEN <<>> ELSE EscapeChar(Head(s)) \o EscapeString(Tail(s))

RECURSIVE DumpItems(_, _)
DumpItems(d, i) ==
    IF i > Len(d) THEN <<>>
    ELSE (IF i > 1 THEN <<44, 32>> ELSE <<>>)
         \o <<34>> \o EscapeString(d[i].key) \o <<34, 58, 32>> \o StrOfInt(d[i].val)
         \o DumpItems(d, i + 1)

\* json.dumps(frequency)
JsonDumps(d) == <<123>> \o DumpItems(d, 1) \o <<125>>

JsonWs == {32, 9, 10, 13}

RECURSIVE SkipWs(_, _)
SkipWs(s, i) == IF i <= Len(s) /\ s[i] \in JsonWs THEN SkipWs(s, i + 1) ELSE i

IsHex(c) == IsDigit(c) \/ (c >= 97 /\ c <= 102) \/ (c >= 65 /\ c <= 70)

HexVal(c) == IF IsDigit(c) THEN c - 48 ELSE IF c >= 97 THEN c - 87 ELSE c - 55

\* json.decoder._decode_uXXXX at s[i..i+3]; -1 where it raises
DecodeU(s, i) ==
    IF i + 3 <= Len(s) /\ \A k \in i..(i + 3) : IsHex(s[k])
    THEN HexVal(s[i]) * 4096 + HexVal(s[i + 1]) * 256 + HexVal(s[i + 2]) * 16 + HexVal(s[i + 3])
    ELSE -1

\* json.decoder.BACKSLASH
Backslash(esc) ==
    IF esc = 34 THEN 34 ELSE IF esc = 92 THEN 92 ELSE IF esc = 47 THEN 47
    ELSE IF esc = 98 THEN 8 ELSE IF esc = 102 THEN 12 ELSE IF esc = 110 THEN 10
    ELSE IF esc = 114 THEN 13 ELSE IF esc = 116 THEN 9 ELSE -1

RECURSIVE ScanString(_, _, _)
\* json.decoder.py_scanstring from the character after the opening quote
ScanString(s, i, acc) ==
    LET bad == [ok |-> FALSE, val |-> <<>>, end |-> i]
    IN IF i > Len(s) THEN bad
       ELSE IF s[i] = 34 THEN [ok |-> TRUE, val |-> acc, end |-> i + 1]
       ELSE IF s[i] < 32 THEN bad
       ELSE IF s[i] # 92 THEN ScanString(s, i + 1, Append(acc, s[i]))
       ELSE IF i + 1 > Len(s) THEN bad
       ELSE IF s[i + 1] # 117
            THEN IF Backslash(s[i + 1]) = -1 THEN bad
                 ELSE ScanString(s, i + 2, Append(acc, Backslash(s[i + 1])))
       ELSE LET uni == DecodeU(s, i + 2)
                uni2 == IF i + 7 <= Len(s) /\ s[i + 6] = 92 /\ s[i + 7] = 117
                        THEN DecodeU(s, i + 8) ELSE -1
            IN IF uni = -1 THEN bad
               ELSE IF uni >= 55296 /\ uni <= 56319 /\ uni2 >= 56320 /\ uni2 <= 57343
                    THEN ScanString(s, i + 12,
                             Append(acc, 65536 + (uni - 55296) * 1024 + (uni2 - 56320)))
               ELSE ScanString(s, i + 6, Append(acc, uni))

RECURSIVE DigitsEnd(_, _)
DigitsEnd(s, i) == IF i <= Len(s) /\ IsDigit(s[i]) THEN DigitsEnd(s, i + 1) ELSE i

\* a value the scanner read.  kind is "int", "str", "list", "dict" (an
\* object whose values are all int or bool), "dict_other" (an object with
\* another value, 0 standing for it in val), "float" (a number with a fraction or an exponent),
\* "float_other" (such a number, its value left open), "nonfinite" (NaN,
\* Infinity, -Infinity), "null", "true", "false", or "error" where Python
\* raises JSONDecodeError.  val is the integer, the string, or the dict;
\* truthy is bool(value); end is the index after the value
Scanned(kind, val, truthy, end) ==
    [kind |-> kind, val |-> val, truthy |-> truthy, end |-> end]

ScanError(i) == Scanned("error", <<>>, FALSE, i)

\* s holds the word w at index i
HasWord(s, i, w) == i + Len(w) - 1 <= Len(s) /\ SubSeq(s, i, i + Len(w) - 1) = w

\* NUMBER_RE group 2, from the index e after the integer part: the index
\* after a fraction, e where there is none
FracEnd(s, e) ==
    IF e + 1 <= Len(s) /\ s[e] = 46 /\ IsDigit(s[e + 1])
    THEN DigitsEnd(s, e + 1)
    ELSE e

\* NUMBER_RE group 3: the index after an exponent, e where there is none
ExpEnd(s, e) ==
    IF e + 1 <= Len(s) /\ s[e] \in {69, 101} /\ IsDigit(s[e + 1])
    THEN DigitsEnd(s, e + 1)
    ELSE IF /\ e + 2 <= Len(s) /\ s[e] \in {69, 101}
            /\ s[e + 1] \in {43, 45} /\ IsDigit(s[e + 2])
    THEN DigitsEnd(s, e + 2)
    ELSE e

\* float(integer + frac + exp) for the text s[j..end-1], whose fraction ends
\* before f: 0.0 when every digit before the exponent is 0.  Of kind
\* "float_other", its value left open, where the float may round to 0.0
\* (a negative exponent of three digits or more, or more than MaxFloatLen
\* characters)
ScanFloat(s, j, f, end) ==
    IF \A k \in j..(f - 1) : s[k] \in {48, 46} THEN Scanned("float", <<>>, FALSE, end)
    ELSE IF (f + 4 < end /\ s[f + 1] = 45) \/ end - j > MaxFloatLen
         THEN Scanned("float_other", <<>>, TRUE, end)
    ELSE Scanned("float", <<>>, TRUE, end)

\* the number whose digits start at j (after the sign, if any) and whose
\* integer part ends before e
ScanNumberEnd(s, negative, j, e) ==
    IF ExpEnd(s, FracEnd(s, e)) # e
    THEN ScanFloat(s, j, FracEnd(s, e), ExpEnd(s, FracEnd(s, e)))
    ELSE IF negative
         THEN Scanned("int", 0 - DigitsValue(SubSeq(s, j, e - 1)),
                      DigitsValue(SubSeq(s, j, e - 1)) # 0, e)
    ELSE Scanned("int", DigitsValue(SubSeq(s, j, e - 1)),
                 DigitsValue(SubSeq(s, j, e - 1)) # 0, e)

\* json.scanner: match_number at s[i], a digit or '-', then the
\* -Infinity literal
ScanNumber(s, i, negative, j) ==
    IF j <= Len(s) /\ IsDigit(s[j])
    THEN ScanNumberEnd(s, negative, j, IF s[j] = 48 THEN j + 1 ELSE DigitsEnd(s, j))
    ELSE IF HasWord(s, i, <<45, 73, 110, 102, 105, 110, 105, 116, 121>>)
         THEN Scanned("nonfinite", <<>>, TRUE, i + 9)
    ELSE ScanError(i)

\* the string the scanner read from the opening quote on
ScannedString(k) ==
    IF k.ok THEN Scanned("str", k.val, k.val # <<>>, k.end) ELSE ScanError(k.end)

RECURSIVE ScanValue(_, _)
RECURSIVE ArrayAfter(_, _)
RECURSIVE PairValue(_, _, _, _, _)
RECURSIVE PairKey(_, _, _, _)

\* json.decoder.JSONArray, the loop: the item at s[i]
ArrayItems(s, i) == ArrayAfter(s, ScanValue(s, i))

\* json.decoder.JSONArray, after the item v: a ']' ends the array and a ','
\* is followed by the next item
ArrayAfter(s, v) ==
    IF v.kind = "error" THEN v
    ELSE IF SkipWs(s, v.end) > Len(s) THEN ScanError(SkipWs(s, v.end))
    ELSE IF s[SkipWs(s, v.end)] = 93
         THEN Scanned("list", <<>>, TRUE, SkipWs(s, v.end) + 1)
    ELSE IF s[SkipWs(s, v.end)] # 44 THEN ScanError(SkipWs(s, v.end))
    ELSE ArrayItems(s, SkipWs(s, SkipWs(s, v.end) + 1))

\* json.decoder.JSONArray; s[i] is the character after '['
ParseArray(s, i) ==
    IF SkipWs(s, i) > Len(s) THEN ScanError(SkipWs(s, i))
    ELSE IF s[SkipWs(s, i)] = 93 THEN Scanned("list", <<>>, FALSE, SkipWs(s, i) + 1)
    ELSE ArrayItems(s, SkipWs(s, i))

\* json.decoder.JSONObject, the loop over "key": value pairs; s[i] is the
\* opening quote of a key, d the pairs read so far (with 0 for a value that
\* is not an int), others the keys whose value is not an int
ParsePairs(s, i, d, others) == PairKey(s, d, others, ScanString(s, i + 1, <<>>))

\* json.decoder.JSONObject, one pair: after its key k, a ':' and a value
PairKey(s, d, others, k) ==
    IF ~k.ok THEN ScanError(k.end)
    ELSE IF SkipWs(s, k.end) > Len(s) \/ s[SkipWs(s, k.end)] # 58
         THEN ScanError(SkipWs(s, k.end))
    ELSE PairValue(s, d, others, k.val, ScanValue(s, SkipWs(s, SkipWs(s, k.end) + 1)))

\* the value is an int; bool is a subclass of int, True being 1 and
\* False 0
IsInt(v) == v.kind \in {"int", "true", "false"}

IntValue(v) == IF v.kind = "int" THEN v.val ELSE IF v.kind = "true" THEN 1 ELSE 0

\* the pairs with key: v added; a later pair replaces an earlier one of
\* the same key
PairsWith(d, key, v) == DictSet(d, key, IF IsInt(v) THEN IntValue(v) ELSE 0)

OthersWith(others, key, v) ==
    IF IsInt(v) THEN others \ {key} ELSE others \cup {key}

\* dict(pairs)
ScannedPairs(d, others, end) ==
    IF others = {} THEN Scanned("dict", d, d # <<>>, end)
    ELSE Scanned("dict_other", d, TRUE, end)

\* json.decoder.JSONObject, one pair: after its value v, a '}' ends the
\* object and a ',' must be followed by the next key
PairValue(s, d, others, key, v) ==
    IF v.kind = "error" THEN v
    ELSE IF SkipWs(s, v.end) > Len(s) THEN ScanError(SkipWs(s, v.end))
    ELSE IF s[SkipWs(s, v.end)] = 125
         THEN ScannedPairs(PairsWith(d, key, v), OthersWith(others, key, v),
                           SkipWs(s, v.end) + 1)
    ELSE IF s[SkipWs(s, v.end)] # 44 THEN ScanError(SkipWs(s, v.end))
    ELSE IF \/ SkipWs(s, SkipWs(s, v.end) + 1) > Len(s)
            \/ s[SkipWs(s, SkipWs(s, v.end) + 1)] # 34
         THEN ScanError(SkipWs(s, SkipWs(s, v.end) + 1))
    ELSE ParsePairs(s, SkipWs(s, SkipWs(s, v.end) + 1),
                    PairsWith(d, key, v), OthersWith(others, key, v))

\* json.decoder.JSONObject; s[i] is the character after '{'
ParseObject(s, i) ==
    IF SkipWs(s, i) > Len(s) THEN ScanError(SkipWs(s, i))
    ELSE IF s[SkipWs(s, i)] = 125 THEN Scanned("dict", <<>>, FALSE, SkipWs(s, i) + 1)
    ELSE IF s[SkipWs(s, i)] # 34 THEN ScanError(SkipWs(s, i))
    ELSE ParsePairs(s, SkipWs(s, i), <<>>, {})

\* json.scanner scan_once: the value at s[i]
ScanValue(s, i) ==
    IF i > Len(s) THEN ScanError(i)
    ELSE IF s[i] = 34 THEN ScannedString(ScanString(s, i + 1, <<>>))
    ELSE IF s[i] = 123 THEN ParseObject(s, i + 1)
    ELSE IF s[i] = 91 THEN ParseArray(s, i + 1)
    ELSE IF HasWord(s, i, <<110, 117, 108, 108>>) THEN Scanned("null", <<>>, FALSE, i + 4)
    ELSE IF HasWord(s, i, <<116, 114, 117, 101>>) THEN Scanned("true", <<>>, TRUE, i + 4)
    ELSE IF HasWord(s, i, <<102, 97, 108, 115, 101>>)
         THEN Scanned("false", <<>>, FALSE, i + 5)
    ELSE IF IsDigit(s[i]) THEN ScanNumber(s, i, FALSE, i)
    ELSE IF s[i] = 45 THEN ScanNumber(s, i, TRUE, i + 1)
    ELSE IF HasWord(s, i, <<78, 97, 78>>) THEN Scanned("nonfinite", <<>>, TRUE, i + 3)
    ELSE IF HasWord(s, i, <<73, 110, 102, 105, 110, 105, 116, 121>>)
         THEN Scanned("nonfinite", <<>>, TRUE, i + 8)
    ELSE ScanError(i)

\* json.decoder.JSONDecoder.decode: the value o was read; anything but
\* white space after it is "Extra data"
LoadsObject(s, o) ==
    IF o.kind = "error" THEN o
    ELSE IF SkipWs(s, o.end) <= Len(s) THEN ScanError(SkipWs(s, o.end))
    ELSE o

\* json.loads(s) of a str: the value read (see Scanned), of kind "error"
\* where Python raises JSONDecodeError
JsonLoads(s) ==
    IF s # <<>> /\ s[1] = 65279 THEN ScanError(1)
    ELSE LoadsObject(s, ScanValue(s, SkipWs(s, 1)))

(***************************************************************************)
(* huffman.py: compress_to_file and decompress_from_file.                  *)
(***************************************************************************)
RECURSIVE EncodeText(_, _)
\* "".join(codes[char] for char in text)
EncodeText(codes, text) ==
    IF text = <<>> THEN <<>>
    ELSE DictGet(codes, <<Head(text)>>) \o EncodeText(codes, Tail(text))

\* PaddingFor without the "padding == 8" correction
PaddingFor_Eight(bitlen) == 8 - (bitlen % 8)

\* padding = 8 - (len(encoded_bits) % 8); if padding == 8: padding = 0
PaddingFor(bitlen) ==
    LET padding == 8 - (bitlen % 8) IN IF padding = 8 THEN 0 ELSE padding

\* CodesFor without the single-character override
CodesFor_NoOverride(root, frequency) == build_codes(root, <<>>, <<>>)

\* the codebook compress_to_file encodes with
CodesFor(root, frequency) ==
    LET codes == build_codes(root, <<>>, <<>>)
    IN IF Len(frequency) = 1 THEN DictSet(codes, frequency[1].key, <<"0">>) ELSE codes

RECURSIVE PackBits(_)
\* byte_array: one byte per 8 characters of encoded_bits
PackBits(bits) ==
    IF bits = <<>> THEN <<>>
    ELSE <<IntBase2(SubSeq(bits, 1, Min(8, Len(bits))))>>
         \o PackBits(SubSeq(bits, 9, Len(bits)))

\* compress_to_file lines 88-101: the file written and the value returned
WriteArtifact(t, codes, encoded_bits, padding, byte_array) ==
    [ret |-> Len(byte_array) * 8,
     written |-> TRUE,
     file |-> EncodeUtf8(JsonDumps(t.frequency)) \o <<10>>
              \o EncodeUtf8(StrOfInt(padding)) \o <<10>> \o byte_array,
     root |-> t.root, frequency |-> t.frequency, codes |-> codes,
     bitlen |-> Len(encoded_bits), padding |-> padding,
     byte_array |-> byte_array]

\* compress_to_file lines 75-86: pad and pack encoded_bits
PadAndPack(t, codes, encoded_bits, padding) ==
    WriteArtifact(t, codes, encoded_bits, padding,
                  PackBits(encoded_bits \o Repeat(<<"0">>, padding)))

\* compress_to_file lines 72-78: encode the text with the codebook
EncodeWith(text, t, codes) ==
    LET encoded_bits == EncodeText(codes, text)
    IN PadAndPack(t, codes, encoded_bits, PaddingFor(Len(encoded_bits)))

\* compress_to_file without the empty-text return of lines 59-61
compress_to_file_NoEmptyCheck(text) ==
    LET t == build_huffman_tree(text)
    IN EncodeWith(text, t, CodesFor(t.root, t.frequency))

\* compress_to_file(text, output_filename): what it returns, whether it
\* wrote the file, the bytes written, and its locals
compress_to_file(text) ==
    IF text = <<>>
    THEN [ret |-> 0, written |-> FALSE, file |-> <<>>, root |-> NoNode,
          frequency |-> <<>>, codes |-> <<>>, bitlen |-> 0, padding |-> 0,
          byte_array |-> <<>>]
    ELSE LET t == build_huffman_tree(text)
         IN EncodeWith(text, t, CodesFor(t.root, t.frequency))

RECURSIVE LineEnd(_, _)
\* index of the last byte f.readline() returns when reading from index i
LineEnd(f, i) ==
    IF i > Len(f) THEN Len(f) ELSE IF f[i] = 10 THEN i ELSE LineEnd(f, i + 1)

BytesWs == {9, 10, 11, 12, 13, 32}

RECURSIVE LStrip(_)
LStrip(b) == IF b # <<>> /\ Head(b) \in BytesWs THEN LStrip(Tail(b)) ELSE b

RECURSIVE RStrip(_)
RStrip(b) ==
    IF b # <<>> /\ b[Len(b)] \in BytesWs THEN RStrip(SubSeq(b, 1, Len(b) - 1)) ELSE b

\* bytes.strip()
Strip(b) == RStrip(LStrip(b))

RECURSIVE BitString(_)
\* bit_string built from compressed_data
BitString(data) ==
    IF data = <<>> THEN <<>> ELSE ZFill8(BinDigits(Head(data))) \o BitString(Tail(data))

\* DropPadding that keeps the padding bits
DropPadding_Keep(bit_string, padding) == bit_string

\* bit_string[:-padding] when padding > 0
DropPadding(bit_string, padding) ==
    IF padding > 0 THEN SubSeq(bit_string, 1, Len(bit_string) - padding) ELSE bit_string

RECURSIVE WalkLoop(_, _, _, _)
\* the loop "for bit in bit_string": decoded_text and current_node at its end
WalkLoop(bits, current_node, root, decoded_text) ==
    IF bits = <<>> THEN [decoded_text |-> decoded_text, current_node |-> current_node]
    ELSE LET n == IF Head(bits) = "0" THEN current_node.left ELSE current_node.right
         IN IF n.char # NoneChar
            THEN WalkLoop(Tail(bits), root, root, Append(decoded_text, n.char))
            ELSE WalkLoop(Tail(bits), n, root, decoded_text)

\* lines 140-145: the two header lines parsed.  status is "parse_error"
\* (the except branch), "ok" (frequency is a dict of ints), "falsy"
\* (frequency is another value with bool(frequency) False), "not_dict"
\* (another value with bool(frequency) True), "single_other" (a dict of one
\* item whose value is not an int), or "other" (frequency is a dict of
\* several items with a value that is not an int, or a float_other)
ParsedHeader(fl_ok, js, pl_ok, pad, compressed_data) ==
    [status |-> IF ~fl_ok \/ js.kind = "error" \/ ~pl_ok \/ ~pad.ok THEN "parse_error"
                ELSE IF js.kind = "dict_other" /\ Len(js.val) = 1 THEN "single_other"
                ELSE IF js.kind \in {"dict_other", "float_other"} THEN "other"
                ELSE IF js.kind = "dict" THEN "ok"
                ELSE IF js.truthy THEN "not_dict"
                ELSE "falsy",
     frequency |-> IF js.kind = "dict" THEN js.val ELSE <<>>,
     padding |-> pad.val,
     compressed_data |-> compressed_data]

\* lines 141-142: .decode('utf-8'), json.loads and int
ParseHeader(frequency_line, padding_line, compressed_data) ==
    LET fl == DecodeUtf8(frequency_line)
        pl == DecodeUtf8(padding_line)
    IN ParsedHeader(fl.ok, JsonLoads(fl.str), pl.ok, IntOfStr(pl.str), compressed_data)

\* lines 135-137 and 153: the two readline().strip() and the rest of the
\* file; e1 is the index of the last byte of the first line
SplitHeader(f, e1) ==
    LET e2 == LineEnd(f, e1 + 1)
    IN ParseHeader(Strip(SubSeq(f, 1, e1)), Strip(SubSeq(f, e1 + 1, e2)),
                   SubSeq(f, e2 + 1, Len(f)))

\* the header as decompress_from_file reads it from the bytes f
ReadHeader(f) == SplitHeader(f, LineEnd(f, 1))

\* what decompress_from_file hands back.
\*   exc       "none" when it returns, else the exception it raises
\*   ret       the string returned
\*   path      the return statement taken: "header" (line 145), "empty"
\*             (line 150), "single" (line 173), "walk" (line 185); where
\*             it raises, "tree" (line 148) or "single" (line 173)
\*   bits      the number of bits the tree walk took
\*   at_root   whether the walk ended with current_node = root
Outcome(path, h, ret, bits, at_root) ==
    [exc |-> "none", ret |-> ret, path |-> path, frequency |-> h.frequency,
     padding |-> h.padding, bits |-> bits, at_root |-> at_root]

\* lines 175-185: the walk over bit_string and its result
WalkResult(h, root, bit_string, w) ==
    Outcome("walk", h, Join(w.decoded_text), Len(bit_string), w.current_node = root)

\* lines 155-185: the body decoded with the tree rebuilt from the header
DecodeBody(h, root) ==
    LET bit_string == DropPadding(BitString(h.compressed_data), h.padding)
    IN IF root = NoNode \/ h.frequency = <<>>
       THEN Outcome("empty", h, <<>>, 0, TRUE)
       ELSE IF Len(h.frequency) = 1
            THEN Outcome("single", h, Repeat(h.frequency[1].key, h.frequency[1].val),
                         0, TRUE)
       ELSE WalkResult(h, root, bit_string, WalkLoop(bit_string, root, root, <<>>))

NoHeader == [frequency |-> <<>>, padding |-> 0]

\* lines 140-150 on the header h
DecodeHeader(h) ==
    IF h.status = "parse_error" THEN Outcome("header", NoHeader, <<>>, 0, TRUE)
    ELSE IF h.status = "other"
         THEN [Outcome("header", NoHeader, <<>>, 0, TRUE) EXCEPT !.exc = "NotModelled"]
    ELSE IF h.status = "not_dict"
         THEN [Outcome("tree", h, <<>>, 0, TRUE) EXCEPT !.exc = "AttributeError"]
    ELSE IF h.status = "single_other"
         THEN [Outcome("single", h, <<>>, 0, TRUE) EXCEPT !.exc = "TypeError"]
    ELSE DecodeBody(h, build_tree_from_frequency(h.frequency))

\* decompress_from_file(input_filename) on a file holding the bytes f
decompress_from_file(f) == DecodeHeader(ReadHeader(f))

\* the outcome before decompress_from_file is called
NotCalled == Outcome("not_called", NoHeader, <<>>, 0, TRUE)

\* an artifact cut short, or with one byte overwritten
Damaged(f) ==
    {SubSeq(f, 1, k) : k \in 0..(Len(f) - 1)}
    \cup {[f EXCEPT ![k] = b] : k \in 1..Len(f), b \in CorruptBytes}

(***************************************************************************)
(* lzw.py                                                                  *)
(***************************************************************************)
\* {bytes([i]): i for i in range(256)}
EncInitDictionary == [s \in {<<i>> : i \in 0..255} |-> s[1]]

\* {i: bytes([i]) for i in range(256)}
DecInitDictionary == [i \in 0..255 |-> <<i>>]

\* dictionary[k] = v
Put(dictionary, k, v) == (k :> v) @@ dictionary

\* IsNextCode that takes every code at or past the next free one
IsNextCode_AtLeast(new_code, dict_size) == new_code >= dict_size

\* line 67: new_code == dict_size
IsNextCode(new_code, dict_size) == new_code = dict_size

\* SelfRefEntry that leaves out current_byte
SelfRefEntry_Prev(prev, cur_byte) == prev

\* line 69: dictionary[old_code] + current_byte
SelfRefEntry(prev, cur_byte) == prev \o cur_byte

\* NewPhrase that takes the last byte of entry
NewPhrase_Last(prev, entry) == prev \o SubSeq(entry, Len(entry), Len(entry))

\* line 76: dictionary[old_code] + entry[0:1]
NewPhrase(prev, entry) == prev \o SubSeq(entry, 1, 1)

\* NextDictSize that skips a code
NextDictSize_Skip(dict_size) == dict_size + 2

\* lines 39 and 77: dict_size += 1
NextDictSize(dict_size) == dict_size + 1

NoResult == [exc |-> "none", ret |-> <<>>, done |-> FALSE]

(***************************************************************************)
(* The state machine.                                                      *)
(***************************************************************************)
InitCommon ==
    /\ huffman_data_bits = 0
    /\ comp = compress_to_file(<<>>)
    /\ huff = NotCalled
    /\ text_bytes = <<>>
    /\ enc_pos = 0
    /\ enc_dictionary = <<>>
    /\ enc_dict_size = 0
    /\ current_string = <<>>
    /\ result_codes = <<>>
    /\ enc_matched = <<>>
    /\ dec_pos = 0
    /\ dec_dictionary = <<>>
    /\ dec_dict_size = 0
    /\ old_code = -1
    /\ result_bytes = <<>>
    /\ current_byte = <<>>
    /\ dec_log = <<>>
    /\ lzw = NoResult

\* test.py run_tests on the text of its first file
InitHarness ==
    /\ mode = "harness"
    /\ pc = "huff_compress"
    /\ original_text \in Texts
    /\ file_exists = FALSE
    /\ file = <<>>
    /\ compressed_codes = <<>>

\* decompress_from_file called on a damaged artifact of some text
InitDecompress ==
    /\ mode = "decompress"
    /\ pc = "huff_decompress"
    /\ original_text \in DamagedTexts
    /\ file_exists = TRUE
    /\ file \in Damaged(compress_to_file(original_text).file)
    /\ compressed_codes = <<>>

\* huffman.py lines 92-96: the layout of an artifact, here with the header
\* of an empty frequency table
EmptyTableArtifact(padding, body) ==
    EncodeUtf8(JsonDumps(<<>>)) \o <<10>> \o EncodeUtf8(StrOfInt(padding))
        \o <<10>> \o body

EmptyTableArtifacts ==
    { EmptyTableArtifact(padding, body) :
        padding \in EmptyTablePaddings, body \in EmptyTableBodies }

\* decompress_from_file called on an artifact whose frequency table is
\* empty, whole or damaged
InitDecompressEmpty ==
    /\ mode = "decompress"
    /\ pc = "huff_decompress"
    /\ original_text = <<>>
    /\ file_exists = TRUE
    /\ \E f \in EmptyTableArtifacts : file \in {f} \cup Damaged(f)
    /\ compressed_codes = <<>>

\* LZW.decode called on an arbitrary code sequence
InitLZWDecode ==
    /\ mode = "lzw_decode"
    /\ pc = "lzw_decode"
    /\ original_text = <<>>
    /\ file_exists = FALSE
    /\ file = <<>>
    /\ compressed_codes \in CodeSeqs

Init ==
    /\ InitCommon
    /\ \/ InitHarness
       \/ InitDecompress
       \/ InitDecompressEmpty
       \/ InitLZWDecode

huffVars == <<file_exists, file, huffman_data_bits, comp, huff>>
encVars == <<text_bytes, enc_pos, enc_dictionary, enc_dict_size, current_string,
             result_codes, enc_matched>>
decVars == <<dec_pos, dec_dictionary, dec_dict_size, old_code, result_bytes,
             current_byte, dec_log, lzw>>

\* test.py lines 59-67: huffman.compress_to_file(original_text, huff_output_file)
HuffCompress ==
    /\ pc = "huff_compress"
    /\ comp' = compress_to_file(original_text)
    /\ huffman_data_bits' = comp'.ret
    /\ file_exists' = (file_exists \/ comp'.written)
    /\ file' = IF comp'.written THEN comp'.file ELSE file
    /\ pc' = IF comp'.ret > 0 THEN "huff_decompress" ELSE "lzw_encode"
    /\ UNCHANGED <<mode, original_text, huff, compressed_codes>>
    /\ UNCHANGED encVars
    /\ UNCHANGED decVars

\* test.py lines 71-76: huffman.decompress_from_file(huff_output_file)
HuffDecompress ==
    /\ pc = "huff_decompress"
    /\ file_exists
    /\ huff' = decompress_from_file(file)
    /\ pc' = IF mode = "harness" THEN "lzw_encode" ELSE "done"
    /\ UNCHANGED <<mode, original_text, file_exists, file, huffman_data_bits, comp,
                   compressed_codes>>
    /\ UNCHANGED encVars
    /\ UNCHANGED decVars

\* LZW.encode lines 14-24: the empty-text return, or the set-up of the loop
LZWEncodeBegin ==
    /\ pc = "lzw_encode"
    /\ IF original_text = <<>>
       THEN /\ pc' = "lzw_decode"
            /\ compressed_codes' = <<>>
            /\ UNCHANGED encVars
       ELSE /\ text_bytes' = EncodeUtf8(original_text)
            /\ enc_dictionary' = EncInitDictionary
            /\ enc_dict_size' = 256
            /\ current_string' = <<>>
            /\ result_codes' = <<>>
            /\ enc_pos' = 0
            /\ pc' = "lzw_encode_loop"
            /\ UNCHANGED <<enc_matched, compressed_codes>>
    /\ UNCHANGED <<mode, original_text>>
    /\ UNCHANGED huffVars
    /\ UNCHANGED decVars

\* LZW.encode lines 26-31: the next byte extends the match
LZWExtendMatch ==
    /\ pc = "lzw_encode_loop"
    /\ enc_pos < Len(text_bytes)
    /\ LET combined == current_string \o <<text_bytes[enc_pos + 1]>>
       IN /\ combined \in DOMAIN enc_dictionary
          /\ current_string' = combined
    /\ enc_pos' = enc_pos + 1
    /\ UNCHANGED <<mode, pc, original_text, compressed_codes, text_bytes,
                   enc_dictionary, enc_dict_size, result_codes, enc_matched>>
    /\ UNCHANGED huffVars
    /\ UNCHANGED decVars

\* LZW.encode lines 26-29, 32-41: emit the match, grow the dictionary, reset
LZWEmitAndReset ==
    /\ pc = "lzw_encode_loop"
    /\ enc_pos < Len(text_bytes)
    /\ LET byte_seq == <<text_bytes[enc_pos + 1]>>
           combined == current_string \o byte_seq
       IN /\ combined \notin DOMAIN enc_dictionary
          /\ IF current_string # <<>>
             THEN /\ result_codes' = Append(result_codes, enc_dictionary[current_string])
                  /\ enc_matched' = Append(enc_matched, current_string)
             ELSE UNCHANGED <<result_codes, enc_matched>>
          /\ enc_dictionary' = Put(enc_dictionary, combined, enc_dict_size)
          /\ enc_dict_size' = NextDictSize(enc_dict_size)
          /\ current_string' = byte_seq
    /\ enc_pos' = enc_pos + 1
    /\ UNCHANGED <<mode, pc, original_text, compressed_codes, text_bytes>>
    /\ UNCHANGED huffVars
    /\ UNCHANGED decVars

\* LZW.encode lines 43-47: emit the last match and return; test.py line 88
\* hands the codes to LZW.decode
LZWEncodeFlush ==
    /\ pc = "lzw_encode_loop"
    /\ enc_pos = Len(text_bytes)
    /\ IF current_string # <<>>
       THEN /\ result_codes' = Append(result_codes, enc_dictionary[current_string])
            /\ enc_matched' = Append(enc_matched, current_string)
       ELSE UNCHANGED <<result_codes, enc_matched>>
    /\ compressed_codes' = result_codes'
    /\ pc' = "lzw_decode"
    /\ UNCHANGED <<mode, original_text, text_bytes, enc_pos, enc_dictionary,
                   enc_dict_size, current_string>>
    /\ UNCHANGED huffVars
    /\ UNCHANGED decVars

\* LZW.decode lines 52-61: the empty return, or the first code
LZWDecodeBegin ==
    /\ pc = "lzw_decode"
    /\ IF compressed_codes = <<>>
       THEN /\ lzw' = [exc |-> "none", ret |-> <<>>, done |-> TRUE]
            /\ pc' = "done"
            /\ UNCHANGED <<dec_pos, dec_dictionary, dec_dict_size, old_code,
                           result_bytes, current_byte, dec_log>>
       ELSE /\ dec_dictionary' = DecInitDictionary
            /\ dec_dict_size' = 256
            /\ old_code' = compressed_codes[1]
            /\ dec_pos' = 1
            /\ IF compressed_codes[1] \in DOMAIN DecInitDictionary
               THEN /\ result_bytes' = DecInitDictionary[compressed_codes[1]]
                    /\ current_byte' = SubSeq(result_bytes', 1, 1)
                    /\ dec_log' = <<[code |-> compressed_codes[1], dict_size |-> 256,
                                     branch |-> "first", entry |-> result_bytes']>>
                    /\ pc' = "lzw_decode_loop"
                    /\ UNCHANGED lzw
               ELSE /\ lzw' = [exc |-> "KeyError", ret |-> <<>>, done |-> TRUE]
                    /\ pc' = "done"
                    /\ UNCHANGED <<result_bytes, current_byte, dec_log>>
    /\ UNCHANGED <<mode, original_text, compressed_codes>>
    /\ UNCHANGED huffVars
    /\ UNCHANGED encVars

\* LZW.decode lines 73-80, once entry is resolved
DecodeAdvance(new_code, entry, branch) ==
    /\ result_bytes' = result_bytes \o entry
    /\ dec_dictionary' = Put(dec_dictionary, dec_dict_size,
                             NewPhrase(dec_dictionary[old_code], entry))
    /\ dec_dict_size' = NextDictSize(dec_dict_size)
    /\ old_code' = new_code
    /\ current_byte' = SubSeq(entry, 1, 1)
    /\ dec_pos' = dec_pos + 1
    /\ dec_log' = Append(dec_log, [code |-> new_code, dict_size |-> dec_dict_size,
                                   branch |-> branch, entry |-> entry])
    /\ UNCHANGED <<mode, pc, original_text, compressed_codes, lzw>>
    /\ UNCHANGED huffVars
    /\ UNCHANGED encVars

\* LZW.decode lines 64-66: the code is in the dictionary
LZWDecodeKnown ==
    /\ pc = "lzw_decode_loop"
    /\ dec_pos < Len(compressed_codes)
    /\ LET new_code == compressed_codes[dec_pos + 1]
       IN /\ new_code \in DOMAIN dec_dictionary
          /\ DecodeAdvance(new_code, dec_dictionary[new_code], "known")

\* LZW.decode lines 67-69: the code is the next one to be assigned
LZWDecodeSelfRef ==
    /\ pc = "lzw_decode_loop"
    /\ dec_pos < Len(compressed_codes)
    /\ LET new_code == compressed_codes[dec_pos + 1]
       IN /\ new_code \notin DOMAIN dec_dictionary
          /\ IsNextCode(new_code, dec_dict_size)
          /\ DecodeAdvance(new_code, SelfRefEntry(dec_dictionary[old_code], current_byte),
                           "selfref")

\* LZW.decode lines 70-71: raise ValueError
LZWDecodeBad ==
    /\ pc = "lzw_decode_loop"
    /\ dec_pos < Len(compressed_codes)
    /\ LET new_code == compressed_codes[dec_pos + 1]
       IN /\ new_code \notin DOMAIN dec_dictionary
          /\ ~IsNextCode(new_code, dec_dict_size)
    /\ lzw' = [exc |-> "ValueError", ret |-> <<>>, done |-> TRUE]
    /\ pc' = "done"
    /\ UNCHANGED <<mode, original_text, compressed_codes, dec_pos, dec_dictionary,
                   dec_dict_size, old_code, result_bytes, current_byte, dec_log>>
    /\ UNCHANGED huffVars
    /\ UNCHANGED encVars

\* LZW.decode line 83: return result_bytes.decode('utf-8')
LZWDecodeFinish ==
    /\ pc = "lzw_decode_loop"
    /\ dec_pos = Len(compressed_codes)
    /\ LET d == DecodeUtf8(result_bytes)
       IN lzw' = IF d.ok THEN [exc |-> "none", ret |-> d.str, done |-> TRUE]
                 ELSE [exc |-> "UnicodeDecodeError", ret |-> <<>>, done |-> TRUE]
    /\ pc' = "done"
    /\ UNCHANGED <<mode, original_text, compressed_codes, dec_pos, dec_dictionary,
                   dec_dict_size, old_code, result_bytes, current_byte, dec_log>>
    /\ UNCHANGED huffVars
    /\ UNCHANGED encVars

\* the values of one turn of the loop of run_tests are dropped
TurnOver ==
    /\ huffman_data_bits' = 0
    /\ comp' = compress_to_file(<<>>)
    /\ huff' = NotCalled
    /\ text_bytes' = <<>>
    /\ enc_pos' = 0
    /\ enc_dictionary' = <<>>
    /\ enc_dict_size' = 0
    /\ current_string' = <<>>
    /\ result_codes' = <<>>
    /\ enc_matched' = <<>>
    /\ compressed_codes' = <<>>
    /\ dec_pos' = 0
    /\ dec_dictionary' = <<>>
    /\ dec_dict_size' = 0
    /\ old_code' = -1
    /\ result_bytes' = <<>>
    /\ current_byte' = <<>>
    /\ dec_log' = <<>>
    /\ lzw' = NoResult

\* test.py lines 40-45: the next file of the loop is read; temp_huffman.bin
\* is as the turn before left it
NextFile ==
    /\ mode = "harness"
    /\ pc = "done"
    /\ original_text' \in LaterTexts
    /\ pc' = "huff_compress"
    /\ TurnOver
    /\ UNCHANGED <<mode, file_exists, file>>

\* test.py lines 133-137: after the loop, temp_huffman.bin is removed if
\* it exists
Cleanup ==
    /\ mode = "harness"
    /\ pc = "done"
    /\ file_exists' = FALSE
    /\ file' = <<>>
    /\ original_text' = <<>>
    /\ pc' = "finished"
    /\ TurnOver
    /\ UNCHANGED mode

Next ==
    \/ HuffCompress
    \/ HuffDecompress
    \/ LZWEncodeBegin
    \/ LZWExtendMatch
    \/ LZWEmitAndReset
    \/ LZWEncodeFlush
    \/ LZWDecodeBegin
    \/ LZWDecodeKnown
    \/ LZWDecodeSelfRef
    \/ LZWDecodeBad
    \/ LZWDecodeFinish
    \/ NextFile
    \/ Cleanup

Spec == Init /\ [][Next]_vars

(***************************************************************************)
(* Properties.                                                             *)
(***************************************************************************)
HuffCompressed == mode = "harness" /\ pc # "huff_compress" /\ original_text # <<>>
HuffDecompressed == huff.path # "not_called"

\* the text is n >= 1 copies of one symbol
SingleSymbol(text) == text # <<>> /\ \A i \in 1..Len(text) : text[i] = text[1]

\* a is a prefix of b
IsPrefix(a, b) == Len(a) <= Len(b) /\ SubSeq(b, 1, Len(a)) = a

\* C1: in the harness, decompress_from_file on the artifact compress_to_file
\* wrote returns exactly the text, and the frequency table and the tree the
\* decoder rebuilds from the header are the encoder's.
C1_HuffmanRoundTrip ==
    (mode = "harness" /\ HuffDecompressed) =>
        /\ huff.exc = "none"
        /\ huff.ret = original_text
        /\ huff.frequency = comp.frequency
        /\ build_tree_from_frequency(huff.frequency) = comp.root

\* a text of three distinct symbols with tied counts went through both ways
C1_Witness ==
    /\ mode = "harness" /\ HuffDecompressed
    /\ Len(comp.frequency) >= 3
    /\ comp.frequency[1].val = comp.frequency[2].val
    /\ huff.path = "walk"
    /\ huff.ret = original_text

\* C2: in the harness, LZW.decode on the codes LZW.encode produced returns
\* without raising and rebuilds exactly the bytes, hence the text.
C2_LZWRoundTrip ==
    (mode = "harness" /\ lzw.done) =>
        /\ lzw.exc = "none"
        /\ result_bytes = text_bytes
        /\ lzw.ret = original_text

\* a text that made the encoder reuse dictionary entries was decoded
C2_Witness ==
    /\ mode = "harness" /\ lzw.done
    /\ Len(original_text) >= 3
    /\ \E j \in 1..Len(compressed_codes) : compressed_codes[j] >= 256
    /\ lzw.ret = original_text

\* the header decompress_from_file reads from f does not parse
HeaderMalformed(f) == ReadHeader(f).status = "parse_error"

\* C3: decompress_from_file on an artifact with a malformed header ends in
\* a failure surfaced to the caller, never in a returned string.
C3_MalformedHeaderFails ==
    (HuffDecompressed /\ HeaderMalformed(file)) => huff.exc # "none"

\* C4: with at least 2 symbols in the header table, decompress_from_file
\* fails when the bits run out while the walk is below the root.
C4_MidTraversalFails ==
    (HuffDecompressed /\ huff.path = "walk" /\ ~huff.at_root) => huff.exc # "none"

\* the next free code of the decoder when it reads the j-th code
NextFreeAt(j) == IF j = 1 THEN 256 ELSE 254 + j

\* the j-th code is neither in the decoder's dictionary nor its next free code
BadAt(codes, j) == codes[j] < 0 \/ codes[j] > NextFreeAt(j)

\* C5: LZW.decode raises, and returns nothing, on every code sequence that
\* holds at some position, the first included, a code that is neither in
\* the dictionary at that step nor the next free code at that step.
C5_BadCodeRaises ==
    (lzw.done /\ \E j \in 1..Len(compressed_codes) : BadAt(compressed_codes, j)) =>
        /\ lzw.exc \in {"KeyError", "ValueError"}
        /\ lzw.ret = <<>>

\* a bad code after the first one was rejected
C5_Witness ==
    /\ mode = "lzw_decode" /\ lzw.done
    /\ dec_pos >= 2
    /\ dec_pos < Len(compressed_codes)
    /\ BadAt(compressed_codes, dec_pos + 1)
    /\ lzw.exc = "ValueError"

\* C6: the padding compress_to_file records is (8 - L mod 8) mod 8 for the
\* unpadded bit length L: 0 when 8 divides L, else in 1..7; L + padding is
\* a multiple of 8 and is the bit count returned.
C6_PaddingCorrect ==
    HuffCompressed =>
        LET L == comp.bitlen
            padding == ReadHeader(file).padding
        IN /\ ReadHeader(file).status = "ok"
           /\ padding = comp.padding
           /\ padding = (8 - (L % 8)) % 8
           /\ (L % 8 = 0 => padding = 0)
           /\ (L % 8 # 0 => padding \in 1..7)
           /\ (L + padding) % 8 = 0
           /\ L + padding = huffman_data_bits

\* a text whose bit length is a multiple of 8 was compressed
C6_Witness ==
    /\ HuffCompressed
    /\ comp.bitlen > 0
    /\ comp.bitlen % 8 = 0
    /\ comp.padding = 0

\* C7: the codebook compress_to_file encodes with has a code for every
\* distinct symbol of the text, and no code is a prefix of another
\* symbol's code.
C7_PrefixFree ==
    HuffCompressed =>
        /\ \A i \in 1..Len(original_text) : DictHas(comp.codes, <<original_text[i]>>)
        /\ \A i, j \in 1..Len(comp.codes) :
               i # j => /\ comp.codes[i].key # comp.codes[j].key
                        /\ ~IsPrefix(comp.codes[i].val, comp.codes[j].val)

\* a codebook of three or more symbols with codes of different lengths
C7_Witness ==
    /\ HuffCompressed
    /\ Len(comp.codes) >= 3
    /\ \E i, j \in 1..Len(comp.codes) : Len(comp.codes[i].val) < Len(comp.codes[j].val)

\* dec is the inverse mapping of enc
IsInverse(enc, dec) ==
    /\ \A k \in DOMAIN dec : dec[k] \in DOMAIN enc /\ enc[dec[k]] = k
    /\ \A q \in DOMAIN enc : enc[q] \in DOMAIN dec /\ dec[enc[q]] = q

\* C8: after N input bytes the encoder's dictionary has at most 256 + N
\* entries; once LZW.decode has consumed the encoder's whole code sequence
\* its dictionary has the size of the encoder's final one and is its inverse.
C8_DictionaryBound ==
    /\ Cardinality(DOMAIN enc_dictionary) <= 256 + enc_pos
    /\ (mode = "harness" /\ lzw.done) =>
           /\ Cardinality(DOMAIN dec_dictionary) = Cardinality(DOMAIN enc_dictionary)
           /\ IsInverse(enc_dictionary, dec_dictionary)

\* both sides grew their dictionaries by at least two entries
C8_Witness ==
    /\ mode = "harness" /\ lzw.done
    /\ Cardinality(DOMAIN enc_dictionary) >= 258
    /\ Cardinality(DOMAIN dec_dictionary) >= 258

\* C9: no code the encoder emits is greater than the decoder's next free
\* code when the decoder reads it, the decoder resolves every code to the
\* sequence the encoder matched, and a code defined by the immediately
\* preceding emit-and-reset step equals the decoder's next free code and is
\* resolved as previous sequence + first byte of previous sequence.
C9_SelfReference ==
    mode = "harness" =>
        \A j \in 1..Len(dec_log) :
            /\ dec_log[j].code = compressed_codes[j]
            /\ dec_log[j].code <= dec_log[j].dict_size
            /\ dec_log[j].entry = enc_matched[j]
            /\ (j >= 2 /\ compressed_codes[j] = 254 + j) =>
                   /\ dec_log[j].dict_size = compressed_codes[j]
                   /\ dec_log[j].branch = "selfref"
                   /\ dec_log[j].entry =
                          dec_log[j - 1].entry \o SubSeq(dec_log[j - 1].entry, 1, 1)

\* the decoder met a code defined one step earlier whose previous sequence
\* is longer than one byte
C9_Witness ==
    /\ mode = "harness" /\ lzw.done
    /\ \E j \in 2..Len(dec_log) :
           /\ dec_log[j].branch = "selfref"
           /\ Len(dec_log[j - 1].entry) >= 2

\* C10: for a text of n >= 1 copies of one symbol the tree is a single
\* leaf, the symbol's code is "0", n bits plus padding are written, and the
\* decoder returns the symbol frequency[symbol] = n times without taking
\* one bit of the tree walk.
C10_SingleSymbol ==
    (mode = "harness" /\ pc # "huff_compress" /\ SingleSymbol(original_text)) =>
        LET n == Len(original_text)
            sym == <<original_text[1]>>
        IN /\ comp.root = HuffmanNode(sym, n)
           /\ comp.codes = <<[key |-> sym, val |-> <<"0">>]>>
           /\ comp.bitlen = n
           /\ huffman_data_bits = n + comp.padding
           /\ Len(comp.byte_array) * 8 = n + comp.padding
           /\ HuffDecompressed =>
                  /\ huff.path = "single"
                  /\ huff.bits = 0
                  /\ DictGet(huff.frequency, sym) = n
                  /\ huff.ret = Repeat(sym, n)
                  /\ huff.ret = original_text

\* a run of three or more of one symbol was compressed and decompressed
C10_Witness ==
    /\ mode = "harness" /\ HuffDecompressed
    /\ SingleSymbol(original_text)
    /\ Len(original_text) >= 3
    /\ huff.path = "single"

(***************************************************************************)
(* C11: empty input.                                                       *)
(***************************************************************************)
\* huffman.py line 135: the frequency line of an artifact, stripped
FrequencyLine(f) == Strip(SubSeq(f, 1, LineEnd(f, 1)))

\* the frequency table of the artifact parses to the empty dict
TableIsEmpty(f) ==
    /\ DecodeUtf8(FrequencyLine(f)).ok
    /\ JsonLoads(DecodeUtf8(FrequencyLine(f)).str).kind = "dict"
    /\ JsonLoads(DecodeUtf8(FrequencyLine(f)).str).val = <<>>

EmptyInputStep ==
    /\ (pc = "huff_compress" /\ original_text = <<>>) =>
           /\ huffman_data_bits' = 0
           /\ ~comp'.written
           /\ file_exists' = file_exists
           /\ file' = file
    /\ (pc = "lzw_encode" /\ original_text = <<>>) =>
           /\ compressed_codes' = <<>>
           /\ result_codes' = <<>>
           /\ pc' = "lzw_decode"
    /\ (pc = "lzw_decode" /\ ~lzw.done /\ dec_pos = 0 /\ compressed_codes = <<>>) =>
           lzw' = [exc |-> "none", ret |-> <<>>, done |-> TRUE]
    /\ (pc = "huff_decompress" /\ TableIsEmpty(file)) =>
           /\ huff'.exc = "none"
           /\ huff'.ret = <<>>

\* C11: empty input is a non-error branch. compress_to_file on the empty
\* text returns 0 and leaves the output file as it was (absent, or holding an
\* earlier artifact); LZW.encode on the empty text returns no codes;
\* LZW.decode on no codes returns the empty string; decompress_from_file on
\* an artifact whose frequency table is empty returns the empty string
\* without raising.
C11_EmptyInput == [][EmptyInputStep]_vars

C11_Witness ==
    /\ mode = "harness"
    /\ original_text = <<>>
    /\ file_exists /\ Len(file) > 0
    /\ huffman_data_bits = 0
    /\ lzw.done /\ lzw.ret = <<>>

(***************************************************************************)
(* C12: growth of the LZW dictionaries.                                    *)
(***************************************************************************)
\* the step creates the dictionary with one entry per byte value, the byte
\* sequence <<i>> paired with the code i, and the next free code 256
EncCreated ==
    /\ DOMAIN enc_dictionary' = {<<i>> : i \in 0..255}
    /\ \A i \in 0..255 : enc_dictionary'[<<i>>] = i
    /\ enc_dict_size' = 256

DecCreated ==
    /\ DOMAIN dec_dictionary' = 0..255
    /\ \A i \in 0..255 : dec_dictionary'[i] = <<i>>
    /\ dec_dict_size' = 256

\* the step adds exactly one entry, under the next free code, and leaves
\* every other entry as it was
EncGrewByOne ==
    /\ enc_dict_size' = enc_dict_size + 1
    /\ Cardinality(DOMAIN enc_dictionary') = Cardinality(DOMAIN enc_dictionary) + 1
    /\ \A q \in DOMAIN enc_dictionary :
           q \in DOMAIN enc_dictionary' /\ enc_dictionary'[q] = enc_dictionary[q]
    /\ \A q \in DOMAIN enc_dictionary' \ DOMAIN enc_dictionary :
           enc_dictionary'[q] = enc_dict_size

DecGrewByOne ==
    /\ dec_dict_size' = dec_dict_size + 1
    /\ DOMAIN dec_dictionary' = DOMAIN dec_dictionary \cup {dec_dict_size}
    /\ dec_dict_size \notin DOMAIN dec_dictionary
    /\ \A k \in DOMAIN dec_dictionary : dec_dictionary'[k] = dec_dictionary[k]

EncSame == enc_dictionary' = enc_dictionary /\ enc_dict_size' = enc_dict_size

DecSame == dec_dictionary' = dec_dictionary /\ dec_dict_size' = dec_dict_size

\* the step is one pass of the loop of LZW.encode over an input byte
EncByteStep == pc = "lzw_encode_loop" /\ enc_pos' = enc_pos + 1

\* the step consumes a code in LZW.decode, the first one (lines 59-61) or one
\* of the loop
DecFirstCodeStep == pc = "lzw_decode" /\ dec_pos' = 1

DecLoopCodeStep == pc = "lzw_decode_loop" /\ dec_pos' = dec_pos + 1

\* the codes of the dictionaries are 0 .. dict_size - 1, each held once
DictionaryCodes ==
    /\ enc_dictionary # <<>> =>
           /\ {enc_dictionary[q] : q \in DOMAIN enc_dictionary} = 0..(enc_dict_size - 1)
           /\ Cardinality(DOMAIN enc_dictionary) = enc_dict_size
    /\ dec_dictionary # <<>> => DOMAIN dec_dictionary = 0..(dec_dict_size - 1)

GrowthEveryStep ==
    /\ (pc = "lzw_encode" /\ pc' = "lzw_encode_loop") => EncCreated
    /\ (pc = "lzw_decode" /\ dec_pos' = 1) => DecCreated
    /\ EncByteStep => EncGrewByOne
    /\ DecFirstCodeStep => dec_dict_size' = 257
    /\ DecLoopCodeStep => DecGrewByOne
    /\ (~EncByteStep /\ pc \notin {"lzw_encode", "done"}) => EncSame
    /\ (~DecLoopCodeStep /\ pc \notin {"lzw_decode", "done"}) => DecSame
    /\ DictionaryCodes'

\* C12 as stated: both dictionaries start as the 256 single-byte sequences
\* under the codes 0..255 and grow by exactly one entry on every input byte
\* of LZW.encode and on every code LZW.decode consumes, the new codes being
\* 256, 257, ... without gap and no entry being overwritten or removed.
C12_GrowthEveryStep == [][GrowthEveryStep]_vars

GrowthPerStep ==
    /\ (pc = "lzw_encode" /\ pc' = "lzw_encode_loop") => EncCreated
    /\ (pc = "lzw_decode" /\ dec_pos' = 1) => DecCreated
    /\ EncByteStep =>
           IF current_string \o <<text_bytes[enc_pos + 1]>> \in DOMAIN enc_dictionary
           THEN EncSame
           ELSE EncGrewByOne
    /\ DecFirstCodeStep => dec_dict_size' = 256
    /\ DecLoopCodeStep => DecGrewByOne
    /\ (~EncByteStep /\ pc \notin {"lzw_encode", "done"}) => EncSame
    /\ (~DecLoopCodeStep /\ pc \notin {"lzw_decode", "done"}) => DecSame
    /\ DictionaryCodes'

\* C12: both dictionaries start as the 256 single-byte sequences under the
\* codes 0..255 and grow by at most one entry per step: LZW.encode adds
\* exactly one entry on an input byte whose extended match is not in the
\* dictionary and none on a byte that extends the match; LZW.decode adds none
\* on the first code and exactly one on every later code it consumes.  The
\* new codes are 256, 257, ... without gap, and no entry is ever overwritten
\* or removed.
C12_GrowthPerStep == [][GrowthPerStep]_vars

\* both sides added two entries, and the encoder read more bytes than it
\* added entries
C12_Witness ==
    /\ mode = "harness" /\ lzw.done
    /\ enc_dict_size = 258 /\ dec_dict_size = 258
    /\ Len(text_bytes) = 4
    /\ Len(compressed_codes) = 3

(***************************************************************************)
(* C13: shape of the Huffman tree.                                         *)
(***************************************************************************)
\* the distinct symbols of the text, as one-character strings
SymbolsOf(text) == {<<text[i]>> : i \in 1..Len(text)}

\* how often the symbol occurs in the text
CountOf(text, sym) == Cardinality({i \in 1..Len(text) : <<text[i]>> = sym})

IsLeaf(node) == node.left = NoNode /\ node.right = NoNode

RECURSIVE LeavesOf(_)
\* the leaves of the tree, left to right
LeavesOf(node) ==
    IF node = NoNode THEN <<>>
    ELSE IF IsLeaf(node) THEN <<node>>
    ELSE LeavesOf(node.left) \o LeavesOf(node.right)

RECURSIVE InternalCount(_)
\* the number of nodes of the tree that are not leaves
InternalCount(node) ==
    IF node = NoNode \/ IsLeaf(node) THEN 0
    ELSE 1 + InternalCount(node.left) + InternalCount(node.right)

RECURSIVE NodesWellFormed(_)
\* every leaf holds a symbol; every other node holds none, has two
\* children, and its frequency is the sum of theirs
NodesWellFormed(node) ==
    IF IsLeaf(node) THEN node.char # NoneChar
    ELSE /\ node.char = NoneChar
         /\ node.left # NoNode /\ node.right # NoNode
         /\ node.freq = node.left.freq + node.right.freq
         /\ NodesWellFormed(node.left)
         /\ NodesWellFormed(node.right)

\* one leaf per distinct symbol of the text with its count, one internal
\* node fewer, and the length of the text at the root
TreeShape(root, leaves, text) ==
    /\ root # NoNode
    /\ Len(leaves) = Cardinality(SymbolsOf(text))
    /\ \A sym \in SymbolsOf(text) :
           \E i \in 1..Len(leaves) :
               /\ leaves[i].char = sym
               /\ leaves[i].freq = CountOf(text, sym)
               /\ \A j \in 1..Len(leaves) : leaves[j].char = sym => j = i
    /\ InternalCount(root) = Cardinality(SymbolsOf(text)) - 1
    /\ NodesWellFormed(root)
    /\ root.freq = Len(text)

\* node1 is a node of lowest frequency of the heap, and node2 one of lowest
\* frequency among the others
TwoLowest(heap, node1, node2) ==
    \E i, j \in 1..Len(heap) :
        /\ i # j
        /\ heap[i] = node1 /\ heap[j] = node2
        /\ \A k \in 1..Len(heap) : node1.freq <= heap[k].freq
        /\ \A k \in 1..Len(heap) : k # i => node2.freq <= heap[k].freq

RECURSIVE MergesTakeLowest(_)
\* every turn of "while len(heap) > 1" pops two nodes of lowest frequency
MergesTakeLowest(heap) ==
    IF Len(heap) > 1
    THEN /\ TwoLowest(heap, HeapPop(heap).item, HeapPop(HeapPop(heap).heap).item)
         /\ MergesTakeLowest(MergeStep(heap))
    ELSE TRUE

\* C13: for every text with two or more distinct symbols the tree of
\* build_huffman_tree, and the one build_tree_from_frequency rebuilds from
\* its frequency table, has exactly one leaf per distinct symbol, holding the
\* symbol and its count, and one internal node fewer than leaves, each
\* holding no symbol, with two children and the sum of their frequencies;
\* every merge takes two nodes of lowest frequency in the heap; the root's
\* frequency is the length of the text.
C13_TreeShape ==
    (HuffCompressed /\ Cardinality(SymbolsOf(original_text)) >= 2) =>
        /\ TreeShape(comp.root, LeavesOf(comp.root), original_text)
        /\ TreeShape(build_tree_from_frequency(comp.frequency),
                     LeavesOf(build_tree_from_frequency(comp.frequency)),
                     original_text)
        /\ MergesTakeLowest(LeafHeap(comp.frequency))

\* a tree over three symbols of different counts was built
C13_Witness ==
    /\ HuffCompressed
    /\ Cardinality(SymbolsOf(original_text)) = 3
    /\ Len(original_text) = 4
    /\ InternalCount(comp.root) = 2
====
